---- MODULE Spec2Model ----
(***************************************************************************)
(* Model of the stock-market service of src/main.py and src/database.py.   *)
(*                                                                         *)
(* The database (one SQLite file, three tables) is the shared state.       *)
(* Every request handler runs in its own thread with its own SQLAlchemy    *)
(* Session (get_db, SessionLocal): a SELECT copies a row into the session, *)
(* the handler computes on that copy, and db.commit() writes the changed   *)
(* columns back as absolute values in one SQLite transaction.  A SELECT    *)
(* and a commit are each atomic; nothing holds a lock between them.        *)
(* Money is modelled in whole currency units (the code uses Float).        *)
(***************************************************************************)
EXTENDS Integers, Sequences, FiniteSets, TLC

\* ------------------------------------------------------------ constants
INITIAL_BALANCE == 100000
MAX_LOAN == 100000

\* --------------------------------------------------------------- bounds
MaxReq == 2
MaxSweeps == 1

\* the p-th request the server receives runs in its own threadpool thread
Procs == 1..MaxReq

UserNames == {"alice", "bob"}
StockNames == {"ACME"}
\* StockCreate bodies as <<price, available_quantity>>
RegOffers == {<<10, 2>>, <<100000, 2>>, <<10, -1>>, <<0, 2>>}
UpdPrices == {1, 100}
LoanAmounts == {-50000, 60000}
BuyQtys == {-1, 0, 2, 3}
SellQtys == {0, 3}

VARIABLES
    users,          \* table users: id = index; [name, balance, loan_taken]
    stocks,         \* table stocks: id = index; [name, price, available_quantity]
    transactions,   \* table transactions: id = index
    pc,             \* per request: the handler's position ("idle": not yet received)
    req,            \* per request: the request body
    suser,          \* per request: the User object of its session
    sstock,         \* per request: the Stock object of its session
    result,         \* per request: its outcome
    upc,            \* price job: position
    uloaded,        \* price job: the Stock objects its session loaded
    nreq,           \* requests received so far
    nsweeps,        \* price sweeps started so far
    priceHist,      \* history: per stock id, every price the row has held
    amounts,        \* history: per transaction id, the amount applied to balance
    report,         \* the last report query: which one, and the ids it returned
    spc,            \* simulator: position
    transaction_count, \* simulator: its loop counter
    simUsers,       \* simulator: the User objects of its session (local users)
    simStocks,      \* simulator: the Stock objects of its session (local stocks)
    simExpired,     \* simulator: its session's objects are expired (after a commit)
    simLast         \* history: the simulator's last choice and what it read

db == <<users, stocks, transactions>>
vars == <<users, stocks, transactions, pc, req, suser, sstock, result,
          upc, uloaded, nreq, nsweeps, priceHist, amounts,
          report, spc, transaction_count, simUsers, simStocks, simExpired, simLast>>

\* ------------------------------------------------------------- sessions
NoUser == [id |-> 0, name |-> "", balance |-> 0, loan_taken |-> 0]
NoStock == [id |-> 0, name |-> "", price |-> 0, available_quantity |-> 0]
NoReq == [op |-> "none", name |-> "", price |-> 0, qty |-> 0, uid |-> 0, sid |-> 0,
          amount |-> 0, existed |-> FALSE]

\* db.query(User).filter(User.id == id).first()
UserById(id) ==
    IF id \in 1..Len(users)
    THEN [id |-> id, name |-> users[id].name, balance |-> users[id].balance,
          loan_taken |-> users[id].loan_taken]
    ELSE NoUser

\* db.query(Stock).filter(Stock.id == id).first()
StockById(id) ==
    IF id \in 1..Len(stocks)
    THEN [id |-> id, name |-> stocks[id].name, price |-> stocks[id].price,
          available_quantity |-> stocks[id].available_quantity]
    ELSE NoStock

\* mutant: the duplicate check filters on a column that never matches
UserByNameNever(name) == NoUser

\* db.query(User).filter(User.name == name).first()
UserByName(name) ==
    IF \E i \in 1..Len(users) : users[i].name = name
    THEN UserById(CHOOSE i \in 1..Len(users) :
             /\ users[i].name = name
             /\ \A j \in 1..(i - 1) : users[j].name # name)
    ELSE NoUser

\* db.query(Stock).filter(Stock.name == name).first()
StockByName(name) ==
    IF \E i \in 1..Len(stocks) : stocks[i].name = name
    THEN StockById(CHOOSE i \in 1..Len(stocks) :
             /\ stocks[i].name = name
             /\ \A j \in 1..(i - 1) : stocks[j].name # name)
    ELSE NoStock

\* mutant: the name column carries no unique index
UniqueViolationDropped(rows, name) == FALSE

\* Column(String, unique=True): the INSERT is refused when the name is taken
UniqueViolation(rows, name) == \E i \in 1..Len(rows) : rows[i].name = name

\* ids a request may name: the rows that exist, and one that does not
UserIds == 1..(Len(users) + 1)
StockIds == 1..(Len(stocks) + 1)

\* request bodies: every amount or quantity for rows that exist, one for the
\* requests that name a missing row (they end at the 404 before using it)
LoanInputs ==
    {t \in UserIds \X LoanAmounts : t[1] > Len(users) => t[2] = 60000}
TradeInputs(qtys) ==
    {t \in UserIds \X StockIds \X qtys :
        (t[1] > Len(users) \/ t[2] > Len(stocks)) => t[3] = 3}

\* ----------------------------------------------------------------- Init
\* stocks.db persists between runs: the service starts on an empty database or on
\* one that earlier registrations filled
Alice == [name |-> "alice", balance |-> INITIAL_BALANCE, loan_taken |-> 0]
Seeds ==
    {[users |-> <<>>, stocks |-> <<>>],
     [users |-> <<Alice>>,
      stocks |-> <<[name |-> "ACME", price |-> 10, available_quantity |-> 2]>>],
     [users |-> <<Alice>>,
      stocks |-> <<[name |-> "ACME", price |-> 100000, available_quantity |-> 2]>>]}

\* no report has been asked for; simulate_random_trading has returned
NoReport == [kind |-> "none", ids |-> <<>>]
NoChoice == [action |-> "none", uid |-> 0, sid |-> 0, qty |-> 0, fresh |-> FALSE]
DriverIdle ==
    /\ report = NoReport
    /\ spc = "done"
    /\ transaction_count = 0
    /\ simUsers = <<>>
    /\ simStocks = <<>>
    /\ simExpired = FALSE
    /\ simLast = NoChoice

Init ==
    /\ \E seed \in Seeds : users = seed.users /\ stocks = seed.stocks
    /\ transactions = <<>>
    /\ pc = [p \in Procs |-> "idle"]
    /\ req = [p \in Procs |-> NoReq]
    /\ suser = [p \in Procs |-> NoUser]
    /\ sstock = [p \in Procs |-> NoStock]
    /\ result = [p \in Procs |-> "none"]
    /\ upc = "idle"
    /\ uloaded = <<>>
    /\ nreq = 0
    /\ nsweeps = 0
    /\ priceHist = [i \in 1..Len(stocks) |-> {stocks[i].price}]
    /\ amounts = <<>>
    /\ DriverIdle

\* the next request arrives (get_db: a fresh session)
Receive(p, r) ==
    /\ pc[p] = "idle"
    /\ p = nreq + 1
    /\ nreq' = nreq + 1
    /\ req' = [req EXCEPT ![p] = r]
    /\ result' = [result EXCEPT ![p] = "none"]

\* mutant: a handler holds its session until every other request has released
\* its own, so two requests in flight wait on each other
ReturnWhenAlone(p, res) ==
    /\ \A q \in Procs \ {p} : pc[q] \in {"idle", "done"}
    /\ pc' = [pc EXCEPT ![p] = "done"]
    /\ result' = [result EXCEPT ![p] = res]
    /\ req' = [req EXCEPT ![p] = NoReq]
    /\ suser' = [suser EXCEPT ![p] = NoUser]
    /\ sstock' = [sstock EXCEPT ![p] = NoStock]

\* the handler returns or raises: get_db's finally closes the session
Return(p, res) ==
    /\ pc' = [pc EXCEPT ![p] = "done"]
    /\ result' = [result EXCEPT ![p] = res]
    /\ req' = [req EXCEPT ![p] = NoReq]
    /\ suser' = [suser EXCEPT ![p] = NoUser]
    /\ sstock' = [sstock EXCEPT ![p] = NoStock]

\* the flush writes a column only when the session changed its value
Flush(stored, loaded, new) == IF new # loaded THEN new ELSE stored

UpdaterUnchanged == UNCHANGED <<upc, uloaded, nsweeps>>
\* neither a report query nor the simulator takes part in the step
SimUnchanged ==
    UNCHANGED <<spc, transaction_count, simUsers, simStocks, simExpired, simLast>>
DriverUnchanged == UNCHANGED report /\ SimUnchanged
HistUnchanged == UNCHANGED <<priceHist, amounts>>

\* history: the name was already stored when the request arrived
NameTaken(rows, name) == name \in {rows[i].name : i \in 1..Len(rows)}

\* ------------------------------------------------------- register_user
RegisterUserQuery(p, name) ==
    /\ Receive(p, [NoReq EXCEPT !.op = "register_user", !.name = name,
                                !.existed = NameTaken(users, name)])
    /\ suser' = [suser EXCEPT ![p] = UserByName(name)]
    /\ pc' = [pc EXCEPT ![p] = "register_user_finish"]
    /\ UNCHANGED <<db, sstock>>
    /\ UpdaterUnchanged /\ HistUnchanged /\ DriverUnchanged

RegisterUserFinish(p) ==
    /\ pc[p] = "register_user_finish"
    /\ IF suser[p].id # 0
       THEN Return(p, "AlreadyExists") /\ UNCHANGED users
       ELSE IF UniqueViolation(users, req[p].name)
       THEN Return(p, "IntegrityError") /\ UNCHANGED users
       ELSE /\ users' = Append(users, [name |-> req[p].name,
                                       balance |-> INITIAL_BALANCE, loan_taken |-> 0])
            /\ Return(p, "ok")
    /\ UNCHANGED <<stocks, transactions, nreq>>
    /\ UpdaterUnchanged /\ HistUnchanged /\ DriverUnchanged

\* ------------------------------------------------------ register_stock
RegisterStockQuery(p, name, price, qty) ==
    /\ Receive(p, [NoReq EXCEPT !.op = "register_stock", !.name = name,
                                !.price = price, !.qty = qty,
                                !.existed = NameTaken(stocks, name)])
    /\ sstock' = [sstock EXCEPT ![p] = StockByName(name)]
    /\ pc' = [pc EXCEPT ![p] = "register_stock_finish"]
    /\ UNCHANGED <<db, suser>>
    /\ UpdaterUnchanged /\ HistUnchanged /\ DriverUnchanged

RegisterStockFinish(p) ==
    /\ pc[p] = "register_stock_finish"
    /\ IF sstock[p].id # 0
       THEN Return(p, "AlreadyExists") /\ UNCHANGED <<stocks, priceHist>>
       ELSE IF UniqueViolation(stocks, req[p].name)
       THEN Return(p, "IntegrityError") /\ UNCHANGED <<stocks, priceHist>>
       ELSE /\ stocks' = Append(stocks, [name |-> req[p].name, price |-> req[p].price,
                                         available_quantity |-> req[p].qty])
            /\ priceHist' = Append(priceHist, {req[p].price})
            /\ Return(p, "ok")
    /\ UNCHANGED <<users, transactions, nreq, amounts>>
    /\ UpdaterUnchanged /\ DriverUnchanged

\* ------------------------------------------------------------ take_loan
\* mutant: the limit is applied to the requested amount alone
LoanLimitExceededAmountOnly(u, amount) == amount > MAX_LOAN

\* if user.loan_taken + loan.amount > 100000
LoanLimitExceeded(u, amount) == u.loan_taken + amount > MAX_LOAN

LoanQuery(p, uid, amount) ==
    /\ Receive(p, [NoReq EXCEPT !.op = "take_loan", !.uid = uid, !.amount = amount])
    /\ suser' = [suser EXCEPT ![p] = UserById(uid)]
    /\ pc' = [pc EXCEPT ![p] = "take_loan_finish"]
    /\ UNCHANGED <<db, sstock>>
    /\ UpdaterUnchanged /\ HistUnchanged /\ DriverUnchanged

LoanFinish(p) ==
    /\ pc[p] = "take_loan_finish"
    /\ LET u == suser[p]
           a == req[p].amount
       IN  IF u.id = 0
           THEN Return(p, "NotFound") /\ UNCHANGED users
           ELSE IF LoanLimitExceeded(u, a)
           THEN Return(p, "LoanLimitExceeded") /\ UNCHANGED users
           ELSE /\ users' = [users EXCEPT
                      ![u.id].balance = Flush(@, u.balance, u.balance + a),
                      ![u.id].loan_taken = Flush(@, u.loan_taken, u.loan_taken + a)]
                /\ Return(p, "ok")
    /\ UNCHANGED <<stocks, transactions, nreq>>
    /\ UpdaterUnchanged /\ HistUnchanged /\ DriverUnchanged

\* -------------------------------------------------------- buy_stock
\* total_cost = trade.quantity * stock.price
TotalCost(p) == req[p].qty * sstock[p].price

\* mutant: the price is read again from the table when the row is written
TradePriceReread(p) == StockById(sstock[p].id).price

\* Transaction(..., price=stock.price, ...): the session's Stock object again
TradePrice(p) == sstock[p].price

NewTransaction(p, kind) ==
    [user_id |-> suser[p].id, stock_id |-> sstock[p].id, quantity |-> req[p].qty,
     price |-> TradePrice(p), type |-> kind]

BuyQueryUser(p, uid, sid, q) ==
    /\ Receive(p, [NoReq EXCEPT !.op = "buy", !.uid = uid, !.sid = sid, !.qty = q])
    /\ suser' = [suser EXCEPT ![p] = UserById(uid)]
    /\ pc' = [pc EXCEPT ![p] = "buy_query_stock"]
    /\ UNCHANGED <<db, sstock>>
    /\ UpdaterUnchanged /\ HistUnchanged /\ DriverUnchanged

BuyQueryStock(p) ==
    /\ pc[p] = "buy_query_stock"
    /\ sstock' = [sstock EXCEPT ![p] = StockById(req[p].sid)]
    /\ pc' = [pc EXCEPT ![p] = "buy_finish"]
    /\ UNCHANGED <<db, suser, req, result, nreq>>
    /\ UpdaterUnchanged /\ HistUnchanged /\ DriverUnchanged

\* mutant: the handler debits the cost without comparing it to the balance
BuyFinishNoBalanceCheck(p) ==
    /\ pc[p] = "buy_finish"
    /\ LET u == suser[p]
           s == sstock[p]
           q == req[p].qty
           total_cost == req[p].qty * sstock[p].price
       IN  IF u.id = 0 \/ s.id = 0
           THEN Return(p, "NotFound") /\ UNCHANGED <<db, amounts>>
           ELSE IF s.available_quantity < q
           THEN Return(p, "NotEnoughStock") /\ UNCHANGED <<db, amounts>>
           ELSE /\ users' = [users EXCEPT
                      ![u.id].balance = Flush(@, u.balance, u.balance - total_cost)]
                /\ stocks' = [stocks EXCEPT
                      ![s.id].available_quantity =
                          Flush(@, s.available_quantity, s.available_quantity - q)]
                /\ transactions' = Append(transactions,
                      [user_id |-> u.id, stock_id |-> s.id, quantity |-> q,
                       price |-> s.price, type |-> "buy"])
                /\ amounts' = Append(amounts, total_cost)
                /\ Return(p, "ok")
    /\ UNCHANGED <<nreq, priceHist>>
    /\ UpdaterUnchanged /\ DriverUnchanged

\* mutant: the balance is debited and committed before the inventory check
BuyFinishDebitFirst(p) ==
    /\ pc[p] = "buy_finish"
    /\ LET u == suser[p]
           s == sstock[p]
           q == req[p].qty
           total_cost == req[p].qty * sstock[p].price
       IN  IF u.id = 0 \/ s.id = 0
           THEN Return(p, "NotFound") /\ UNCHANGED <<db, amounts>>
           ELSE IF u.balance < total_cost
           THEN Return(p, "InsufficientBalance") /\ UNCHANGED <<db, amounts>>
           ELSE IF s.available_quantity < q
           THEN /\ users' = [users EXCEPT ![u.id].balance = u.balance - total_cost]
                /\ Return(p, "NotEnoughStock")
                /\ UNCHANGED <<stocks, transactions, amounts>>
           ELSE /\ users' = [users EXCEPT ![u.id].balance = u.balance - total_cost]
                /\ stocks' = [stocks EXCEPT
                      ![s.id].available_quantity = s.available_quantity - q]
                /\ transactions' = Append(transactions,
                      [user_id |-> u.id, stock_id |-> s.id, quantity |-> q,
                       price |-> s.price, type |-> "buy"])
                /\ amounts' = Append(amounts, total_cost)
                /\ Return(p, "ok")
    /\ UNCHANGED <<nreq, priceHist>>
    /\ UNCHANGED <<upc, uloaded, nsweeps>> /\ DriverUnchanged

BuyFinish(p) ==
    /\ pc[p] = "buy_finish"
    /\ LET u == suser[p]
           s == sstock[p]
           q == req[p].qty
           total_cost == TotalCost(p)
       IN  IF u.id = 0 \/ s.id = 0
           THEN Return(p, "NotFound") /\ UNCHANGED <<db, amounts>>
           ELSE IF u.balance < total_cost
           THEN Return(p, "InsufficientBalance") /\ UNCHANGED <<db, amounts>>
           ELSE IF s.available_quantity < q
           THEN Return(p, "NotEnoughStock") /\ UNCHANGED <<db, amounts>>
           ELSE /\ users' = [users EXCEPT
                      ![u.id].balance = Flush(@, u.balance, u.balance - total_cost)]
                /\ stocks' = [stocks EXCEPT
                      ![s.id].available_quantity =
                          Flush(@, s.available_quantity, s.available_quantity - q)]
                /\ transactions' = Append(transactions, NewTransaction(p, "buy"))
                /\ amounts' = Append(amounts, total_cost)
                /\ Return(p, "ok")
    /\ UNCHANGED <<nreq, priceHist>>
    /\ UpdaterUnchanged /\ DriverUnchanged

\* ------------------------------------------------------- sell_stock
SellQueryUser(p, uid, sid, q) ==
    /\ Receive(p, [NoReq EXCEPT !.op = "sell", !.uid = uid, !.sid = sid, !.qty = q])
    /\ suser' = [suser EXCEPT ![p] = UserById(uid)]
    /\ pc' = [pc EXCEPT ![p] = "sell_query_stock"]
    /\ UNCHANGED <<db, sstock>>
    /\ UpdaterUnchanged /\ HistUnchanged /\ DriverUnchanged

SellQueryStock(p) ==
    /\ pc[p] = "sell_query_stock"
    /\ sstock' = [sstock EXCEPT ![p] = StockById(req[p].sid)]
    /\ pc' = [pc EXCEPT ![p] = "sell_finish"]
    /\ UNCHANGED <<db, suser, req, result, nreq>>
    /\ UpdaterUnchanged /\ HistUnchanged /\ DriverUnchanged

\* mutant: the handler commits the balance but never adds the Transaction
SellFinishNoLog(p) ==
    /\ pc[p] = "sell_finish"
    /\ LET u == suser[p]
           s == sstock[p]
           total_sale == req[p].qty * sstock[p].price
       IN  IF u.id = 0 \/ s.id = 0
           THEN Return(p, "NotFound") /\ UNCHANGED users
           ELSE /\ users' = [users EXCEPT
                      ![u.id].balance = Flush(@, u.balance, u.balance + total_sale)]
                /\ Return(p, "ok")
    /\ UNCHANGED <<stocks, transactions, amounts, nreq, priceHist>>
    /\ UpdaterUnchanged /\ DriverUnchanged

SellFinish(p) ==
    /\ pc[p] = "sell_finish"
    /\ LET u == suser[p]
           s == sstock[p]
           total_sale == TotalCost(p)
       IN  IF u.id = 0 \/ s.id = 0
           THEN Return(p, "NotFound") /\ UNCHANGED <<db, amounts>>
           ELSE /\ users' = [users EXCEPT
                      ![u.id].balance = Flush(@, u.balance, u.balance + total_sale)]
                /\ transactions' = Append(transactions, NewTransaction(p, "sell"))
                /\ amounts' = Append(amounts, total_sale)
                /\ Return(p, "ok")
                /\ UNCHANGED stocks
    /\ UNCHANGED <<nreq, priceHist>>
    /\ UpdaterUnchanged /\ DriverUnchanged

\* ---------------------------------------------- update_stock_prices
WorkersUnchanged == UNCHANGED <<pc, req, suser, sstock, result, nreq>>

\* stocks = db.query(Stock).all()
PriceQuery ==
    /\ upc = "idle"
    /\ nsweeps < MaxSweeps
    /\ nsweeps' = nsweeps + 1
    /\ uloaded' = [i \in 1..Len(stocks) |-> StockById(i)]
    /\ upc' = "loaded"
    /\ UNCHANGED db
    /\ WorkersUnchanged /\ HistUnchanged /\ DriverUnchanged

\* mutant: the commit writes every column of the loaded objects back
SweepRowWhole(stored, loaded, price) == [loaded EXCEPT !.price = price]

\* the row an UPDATE of the price column alone leaves behind
SweepRow(stored, loaded, price) ==
    [stored EXCEPT !.price = Flush(@, loaded.price, price)]

\* for stock in stocks: stock.price = round(random.uniform(1, 100), 2); db.commit()
PriceCommit ==
    /\ upc = "loaded"
    /\ \E f \in [1..Len(uloaded) -> UpdPrices] :
         /\ stocks' = [i \in 1..Len(stocks) |->
                         IF i <= Len(uloaded)
                         THEN LET row == SweepRow(stocks[i], uloaded[i], f[i])
                              IN  [name |-> row.name, price |-> row.price,
                                   available_quantity |-> row.available_quantity]
                         ELSE stocks[i]]
         /\ priceHist' = [i \in 1..Len(stocks) |->
                         IF i <= Len(uloaded) THEN priceHist[i] \cup {stocks'[i].price}
                         ELSE priceHist[i]]
    /\ upc' = "idle"
    /\ uloaded' = <<>>
    /\ UNCHANGED <<users, transactions, nsweeps, amounts>>
    /\ WorkersUnchanged /\ DriverUnchanged

\* ----------------------------------------------------------------- Next
Next ==
    \/ \E p \in Procs, name \in UserNames : RegisterUserQuery(p, name)
    \/ \E p \in Procs : RegisterUserFinish(p)
    \/ \E p \in Procs, name \in StockNames, offer \in RegOffers :
          RegisterStockQuery(p, name, offer[1], offer[2])
    \/ \E p \in Procs : RegisterStockFinish(p)
    \/ \E p \in Procs, t \in LoanInputs : LoanQuery(p, t[1], t[2])
    \/ \E p \in Procs : LoanFinish(p)
    \/ \E p \in Procs, t \in TradeInputs(BuyQtys) : BuyQueryUser(p, t[1], t[2], t[3])
    \/ \E p \in Procs : BuyQueryStock(p)
    \/ \E p \in Procs : BuyFinish(p)
    \/ \E p \in Procs, t \in TradeInputs(SellQtys) : SellQueryUser(p, t[1], t[2], t[3])
    \/ \E p \in Procs : SellQueryStock(p)
    \/ \E p \in Procs : SellFinish(p)
    \/ PriceQuery
    \/ PriceCommit

Spec == Init /\ [][Next]_vars

\* ------------------------------------------- N concurrent buys of q units
\* one account, one instrument holding exactly N*q units, N = MaxReq buys of q each
BuyNQty == 2

InitBuyN ==
    /\ users = <<Alice>>
    /\ stocks = <<[name |-> "ACME", price |-> 10, available_quantity |-> MaxReq * BuyNQty]>>
    /\ transactions = <<>>
    /\ pc = [p \in Procs |-> "idle"]
    /\ req = [p \in Procs |-> NoReq]
    /\ suser = [p \in Procs |-> NoUser]
    /\ sstock = [p \in Procs |-> NoStock]
    /\ result = [p \in Procs |-> "none"]
    /\ upc = "idle"
    /\ uloaded = <<>>
    /\ nreq = 0
    /\ nsweeps = 0
    /\ priceHist = <<{10}>>
    /\ amounts = <<>>
    /\ DriverIdle

NextBuyN ==
    \/ \E p \in Procs : BuyQueryUser(p, 1, 1, BuyNQty)
    \/ \E p \in Procs : BuyQueryStock(p)
    \/ \E p \in Procs : BuyFinish(p)
    \/ PriceQuery
    \/ PriceCommit

SpecBuyN == InitBuyN /\ [][NextBuyN]_vars

\* ---------------------------------------------------------------- claims
RECURSIVE SumQuantity(_)
SumQuantity(log) ==
    IF log = <<>> THEN 0 ELSE log[1].quantity + SumQuantity(Tail(log))

Errors == {"NotFound", "AlreadyExists", "IntegrityError", "LoanLimitExceeded",
           "InsufficientBalance", "NotEnoughStock"}

\* the step in which request p returns
Returns(p) == pc[p] # "done" /\ pc'[p] = "done"

\* C1: once N concurrent Buys of q units on an instrument holding N*q units have
\* all returned, availableQuantity is 0 and the inventory removed equals the sum
\* of the quantities of the Buys that succeeded.
C1_NoLostInventory ==
    (\A p \in Procs : pc[p] = "done") =>
        /\ stocks[1].available_quantity = 0
        /\ MaxReq * BuyNQty - stocks[1].available_quantity = SumQuantity(transactions)

C3_NoOversell == \A i \in 1..Len(stocks) : stocks[i].available_quantity >= 0

\* C4: a successful Sell of q units at price p raises the account's balance by
\* q*p, raises the instrument's availableQuantity by q and appends exactly one
\* Sell transaction with quantity q and price p.
C4_SellConservation ==
    [][\A p \in Procs :
        (pc[p] = "sell_finish" /\ Returns(p) /\ result'[p] = "ok" /\ req[p].qty > 0)
        => LET u == suser[p].id
               s == sstock[p].id
               q == req[p].qty
               t == transactions'[Len(transactions')]
           IN  /\ Len(transactions') = Len(transactions) + 1
               /\ t.type = "sell" /\ t.quantity = q
               /\ users'[u].balance = users[u].balance + q * t.price
               /\ stocks'[s].available_quantity = stocks[s].available_quantity + q]_vars

\* C5: a successful Buy of q units at price p lowers the account's balance by
\* q*p, lowers the instrument's availableQuantity by q and appends exactly one
\* Buy transaction with quantity q and price p.
C5_BuyConservation ==
    [][\A p \in Procs :
        (pc[p] = "buy_finish" /\ Returns(p) /\ result'[p] = "ok" /\ req[p].qty > 0)
        => LET u == suser[p].id
               s == sstock[p].id
               q == req[p].qty
               t == transactions'[Len(transactions')]
           IN  /\ Len(transactions') = Len(transactions) + 1
               /\ t.type = "buy" /\ t.quantity = q
               /\ users'[u].balance = users[u].balance - q * t.price
               /\ stocks'[s].available_quantity = stocks[s].available_quantity - q]_vars

\* C6: the price stored in every transaction is a price its instrument held at
\* some instant, and the amount applied to the balance is quantity times that
\* same price, also when a price sweep runs concurrently with the trade.
C6_ConsistentPrice ==
    /\ Len(amounts) = Len(transactions)
    /\ \A k \in 1..Len(transactions) :
        /\ transactions[k].price \in priceHist[transactions[k].stock_id]
        /\ amounts[k] = transactions[k].quantity * transactions[k].price

\* a sweep committed between the trade's read of the instrument and its commit
C6_Witness ==
    /\ nsweeps > 0
    /\ \E k \in 1..Len(transactions) :
        /\ transactions[k].quantity > 0
        /\ transactions[k].price # stocks[transactions[k].stock_id].price
        /\ transactions[k].price \in priceHist[transactions[k].stock_id]

\* C7: no two accounts share a name and no two instruments share a name, so two
\* concurrent registrations of one name never both succeed.
C7_UniqueNames ==
    /\ \A i, j \in 1..Len(users) : users[i].name = users[j].name => i = j
    /\ \A i, j \in 1..Len(stocks) : stocks[i].name = stocks[j].name => i = j

\* two registrations raced past the duplicate check and one INSERT was refused
C7_Witness == \E p \in Procs : result[p] = "IntegrityError"

\* C8: a registration under a name that was already stored when the request
\* arrived fails as a duplicate and changes no account, instrument or
\* transaction record.
C8_DuplicateRejected ==
    [][\A p \in Procs :
        (pc[p] \in {"register_user_finish", "register_stock_finish"}
            /\ Returns(p) /\ req[p].existed)
        => (result'[p] = "AlreadyExists" /\ db' = db)]_vars

C8_Witness ==
    \E p \in Procs : result[p] = "AlreadyExists" /\ Len(users) + Len(stocks) > 0

\* C9: a step of a request that does not end it successfully (its reads, and its
\* return with any error) changes no account, instrument or transaction record.
C9_ErrorsWriteNothing ==
    [][\A p \in Procs :
        (pc'[p] # pc[p] /\ result'[p] # "ok") => db' = db]_vars

C9_Witness ==
    \E p, r \in Procs :
        result[p] = "InsufficientBalance" /\ result[r] = "NotEnoughStock"

\* C10: a Buy or Sell of an existing account and instrument whose quantity is
\* not greater than 0 is rejected as an invalid argument and changes nothing.
C10_NonPositiveQuantityRejected ==
    [][\A p \in Procs :
        (pc[p] \in {"buy_finish", "sell_finish"} /\ Returns(p)
            /\ suser[p].id # 0 /\ sstock[p].id # 0 /\ req[p].qty <= 0)
        => (result'[p] = "InvalidArgument" /\ db' = db)]_vars

\* C11: every account has loanTaken >= 0 in every reachable state (a TakeLoan
\* with a negative amount is rejected and changes nothing).
C11_LoanNonNegative == \A i \in 1..Len(users) : users[i].loan_taken >= 0

\* C12: a RegisterInstrument under a new name with price <= 0 or quantity < 0 is
\* rejected as an invalid argument and creates no instrument.
C12_InvalidInstrumentRejected ==
    [][\A p \in Procs :
        (pc[p] = "register_stock_finish" /\ Returns(p)
            /\ ~NameTaken(stocks, req[p].name)
            /\ (req[p].price <= 0 \/ req[p].qty < 0))
        => (result'[p] = "InvalidArgument" /\ stocks' = stocks)]_vars

\* a sequence is an initial part of another
IsPrefix(a, b) == Len(a) <= Len(b) /\ SubSeq(b, 1, Len(a)) = a

\* C13: the transaction log only grows by appending: a step either leaves it as
\* it is or appends one entry, and it appends one exactly when a Buy or a Sell
\* returns successfully (never for a loan, a registration, a price sweep or a
\* rejected request); no stored entry is modified or removed.
C13_AppendOnlyLog ==
    [][/\ IsPrefix(transactions, transactions')
       /\ Len(transactions') <= Len(transactions) + 1
       /\ (Len(transactions') = Len(transactions) + 1
            <=> \E p \in Procs : /\ pc[p] \in {"buy_finish", "sell_finish"}
                                 /\ Returns(p)
                                 /\ result'[p] = "ok")]_vars

\* a Buy and a Sell were logged in commit order
C13_Witness ==
    /\ Len(transactions) = 2
    /\ transactions[1].type # transactions[2].type
    /\ \A p \in Procs : result[p] = "ok"

\* C14: the commit of a price sweep changes instrument prices only: it leaves
\* every account, the transaction log and every instrument's name and
\* availableQuantity as stored, whatever was committed since the sweep loaded
\* its rows.
C14_SweepWritesPricesOnly ==
    [][(upc = "loaded" /\ upc' = "idle")
        => /\ users' = users
           /\ transactions' = transactions
           /\ Len(stocks') = Len(stocks)
           /\ \A i \in 1..Len(stocks) :
                /\ stocks'[i].name = stocks[i].name
                /\ stocks'[i].available_quantity = stocks[i].available_quantity]_vars

\* a sweep has committed while a Buy that read the old price was in flight, after
\* an earlier trade had already moved the balance and the inventory
C14_Witness ==
    /\ nsweeps > 0 /\ upc = "idle"
    /\ \E p \in Procs :
        /\ pc[p] = "buy_finish" /\ sstock[p].id # 0
        /\ sstock[p].price # stocks[sstock[p].id].price
    /\ \E i \in 1..Len(stocks) : stocks[i].available_quantity # 2
    /\ \E i \in 1..Len(users) : users[i].balance # INITIAL_BALANCE

\* --------------------------- concurrent loans and buys on one account
\* the account and instrument of InitBuyN; each of the N = MaxReq requests is a
\* TakeLoan of AccountLoan or a Buy of BuyNQty units, all on account 1
AccountLoan == 40000

NextAccount ==
    \/ \E p \in Procs : LoanQuery(p, 1, AccountLoan)
    \/ \E p \in Procs : LoanFinish(p)
    \/ \E p \in Procs : BuyQueryUser(p, 1, 1, BuyNQty)
    \/ \E p \in Procs : BuyQueryStock(p)
    \/ \E p \in Procs : BuyFinish(p)
    \/ PriceQuery
    \/ PriceCommit

SpecAccount == InitBuyN /\ [][NextAccount]_vars

RECURSIVE SumAmounts(_)
SumAmounts(a) == IF a = <<>> THEN 0 ELSE a[1] + SumAmounts(Tail(a))

\* C18: once concurrent TakeLoans and Buys on one account have all returned
\* successfully, its balance is the initial balance plus every loan amount minus
\* every cost, and its loanTaken is the sum of the loan amounts.
C18_NoLostAccountUpdate ==
    (\A p \in Procs : pc[p] = "done" /\ result[p] = "ok") =>
        LET loans == (MaxReq - Len(transactions)) * AccountLoan
        IN  /\ users[1].balance = INITIAL_BALANCE + loans - SumAmounts(amounts)
            /\ users[1].loan_taken = loans

\* ------------------------------------------- requests with valid arguments
\* the requests of Next whose arguments the interface allows: quantity > 0,
\* loan amount >= 0, registered price > 0
ValidOffers == {o \in RegOffers : o[1] > 0}
ValidLoanInputs == {t \in LoanInputs : t[2] >= 0}
ValidTradeInputs(qtys) == TradeInputs({q \in qtys : q > 0})

NextValid ==
    \/ \E p \in Procs, name \in UserNames : RegisterUserQuery(p, name)
    \/ \E p \in Procs : RegisterUserFinish(p)
    \/ \E p \in Procs, name \in StockNames, offer \in ValidOffers :
          RegisterStockQuery(p, name, offer[1], offer[2])
    \/ \E p \in Procs : RegisterStockFinish(p)
    \/ \E p \in Procs, t \in ValidLoanInputs : LoanQuery(p, t[1], t[2])
    \/ \E p \in Procs : LoanFinish(p)
    \/ \E p \in Procs, t \in ValidTradeInputs(BuyQtys) :
          BuyQueryUser(p, t[1], t[2], t[3])
    \/ \E p \in Procs : BuyQueryStock(p)
    \/ \E p \in Procs : BuyFinish(p)
    \/ \E p \in Procs, t \in ValidTradeInputs(SellQtys) :
          SellQueryUser(p, t[1], t[2], t[3])
    \/ \E p \in Procs : SellQueryStock(p)
    \/ \E p \in Procs : SellFinish(p)
    \/ PriceQuery
    \/ PriceCommit

SpecValid == Init /\ [][NextValid]_vars

\* C20: when every request carries valid arguments, every account's balance is
\* >= 0 in every reachable state, under any interleaving of Buy, Sell, TakeLoan
\* and price sweeps.
C20_BalanceNonNegative == \A i \in 1..Len(users) : users[i].balance >= 0

\* one Buy was refused for its cost, another was paid from the balance
C20_Witness ==
    /\ \E p \in Procs : result[p] = "InsufficientBalance"
    /\ \E i \in 1..Len(users) : users[i].balance < INITIAL_BALANCE
    /\ Len(transactions) > 0

\* ------------------------------------------------------- fair scheduling
\* the next step of request p's handler: the threadpool thread that runs it is
\* scheduled again, and no step waits for a lock another handler holds
Step(p) ==
    \/ RegisterUserFinish(p)
    \/ RegisterStockFinish(p)
    \/ LoanFinish(p)
    \/ BuyQueryStock(p)
    \/ BuyFinish(p)
    \/ SellQueryStock(p)
    \/ SellFinish(p)

SpecFair ==
    /\ Init
    /\ [][Next]_vars
    /\ \A p \in Procs : WF_vars(Step(p))
    /\ WF_vars(PriceCommit)

InFlight(p) == pc[p] \notin {"idle", "done"}

\* C16: under fair scheduling every invoked operation (a request of any kind,
\* each price sweep) eventually completes with a result; no operation waits on
\* another forever.
C16_EveryOperationCompletes ==
    /\ \A p \in Procs : InFlight(p) ~> (pc[p] = "done" /\ result[p] # "none")
    /\ (upc = "loaded") ~> (upc = "idle")

\* two requests were in flight when a sweep had loaded its rows
C16_Witness ==
    /\ upc = "loaded"
    /\ \A p \in Procs : InFlight(p)
    /\ \E p, q \in Procs : p # q /\ pc[p] = "buy_finish" /\ pc[q] = "take_loan_finish"

\* -------------------------------------------------------- report queries
TOP_N == 5

\* ORDER BY key DESC: every order of the rows in which no key is followed by a
\* larger one; the statement names no second sort key, so rows of equal key
\* come in whatever order the database's sorter leaves them
RECURSIVE OrderByDesc(_, _)
OrderByDesc(key, rows) ==
    IF rows = {} THEN {<<>>}
    ELSE LET top == {i \in rows : \A j \in rows : key[j] <= key[i]}
         IN  UNION {{<<i>> \o t : t \in OrderByDesc(key, rows \ {i})} : i \in top}

\* LIMIT n
Limit(rows, n) == SubSeq(rows, 1, IF Len(rows) < n THEN Len(rows) ELSE n)

ReportReadsOnly ==
    /\ UNCHANGED <<db, priceHist, amounts>>
    /\ WorkersUnchanged /\ UpdaterUnchanged /\ SimUnchanged

\* db.query(User).order_by(User.balance.desc()).limit(5).all()
top_users ==
    /\ \E rows \in OrderByDesc([i \in 1..Len(users) |-> users[i].balance],
                               1..Len(users)) :
          report' = [kind |-> "users", ids |-> Limit(rows, TOP_N)]
    /\ ReportReadsOnly

\* db.query(Stock).order_by(Stock.price.desc()).limit(5).all()
top_stocks ==
    /\ \E rows \in OrderByDesc([i \in 1..Len(stocks) |-> stocks[i].price],
                               1..Len(stocks)) :
          report' = [kind |-> "stocks", ids |-> Limit(rows, TOP_N)]
    /\ ReportReadsOnly

\* stored tables of up to seven rows, among them the balances 500, 500, 300, 100,
\* 100, 50, 10 of ids 1..7
ManyNames == <<"n1", "n2", "n3", "n4", "n5", "n6", "n7">>
KeyLists ==
    {<<>>, <<500, 500, 300, 100, 100, 50, 10>>, <<300, 300, 300, 100, 100, 100>>}
    \cup UNION {[1..n -> {100, 300}] : n \in 1..3}

InitTop ==
    /\ \E k \in KeyLists :
          users = [i \in 1..Len(k) |->
                     [name |-> ManyNames[i], balance |-> k[i], loan_taken |-> 0]]
    /\ \E k \in KeyLists :
          stocks = [i \in 1..Len(k) |->
                     [name |-> ManyNames[i], price |-> k[i], available_quantity |-> 2]]
    /\ transactions = <<>>
    /\ pc = [p \in Procs |-> "idle"]
    /\ req = [p \in Procs |-> NoReq]
    /\ suser = [p \in Procs |-> NoUser]
    /\ sstock = [p \in Procs |-> NoStock]
    /\ result = [p \in Procs |-> "none"]
    /\ upc = "idle"
    /\ uloaded = <<>>
    /\ nreq = 0
    /\ nsweeps = 0
    /\ priceHist = [i \in 1..Len(stocks) |-> {stocks[i].price}]
    /\ amounts = <<>>
    /\ DriverIdle

NextTop == top_users \/ top_stocks

SpecTop == InitTop /\ [][NextTop]_vars

\* ids is the top n of the rows by key descending, ties by ascending id
Before(key, i, j) == key[i] > key[j] \/ (key[i] = key[j] /\ i < j)
IsTopN(key, ids, n) ==
    /\ Len(ids) = (IF Len(key) < n THEN Len(key) ELSE n)
    /\ \A a \in 1..Len(ids) : ids[a] \in 1..Len(key)
    /\ \A a, b \in 1..Len(ids) : a < b => Before(key, ids[a], ids[b])
    /\ \A a \in 1..Len(ids) : \A j \in 1..Len(key) :
          (\A b \in 1..Len(ids) : ids[b] # j) => Before(key, ids[a], j)

\* C15: TopAccounts(5) returns the five accounts of highest balance, in descending
\* balance order with ties broken by ascending id (balances 500, 500, 300, 100,
\* 100, 50, 10 of ids 1..7 give ids 1, 2, 3, 4, 5); TopInstruments(5) does the
\* same by price; the stored records determine the result.
C15_TopNByIdTieBreak ==
    /\ report.kind = "users" =>
          IsTopN([i \in 1..Len(users) |-> users[i].balance], report.ids, TOP_N)
    /\ report.kind = "stocks" =>
          IsTopN([i \in 1..Len(stocks) |-> stocks[i].price], report.ids, TOP_N)

\* -------------------------------------------------------------- simulator
\* simulate_random_trading runs when the module is imported, in one session of
\* its own; the price job's thread is already started and may sweep meanwhile
SIM_ITERATIONS == 10
SimQtys == {1}
SimActions == {"buy", "sell"}

SimSeeds == Seeds \cup {[users |-> <<Alice>>, stocks |-> <<>>]}

InitSim ==
    /\ \E seed \in SimSeeds : users = seed.users /\ stocks = seed.stocks
    /\ transactions = <<>>
    /\ pc = [p \in Procs |-> "idle"]
    /\ req = [p \in Procs |-> NoReq]
    /\ suser = [p \in Procs |-> NoUser]
    /\ sstock = [p \in Procs |-> NoStock]
    /\ result = [p \in Procs |-> "none"]
    /\ upc = "idle"
    /\ uloaded = <<>>
    /\ nreq = 0
    /\ nsweeps = 0
    /\ priceHist = [i \in 1..Len(stocks) |-> {stocks[i].price}]
    /\ amounts = <<>>
    /\ report = NoReport
    /\ spc = "loop"
    /\ transaction_count = 0
    /\ simUsers = <<>>
    /\ simStocks = <<>>
    /\ simExpired = FALSE
    /\ simLast = NoChoice

SimOthersUnchanged ==
    /\ UNCHANGED <<report, priceHist>>
    /\ WorkersUnchanged /\ UpdaterUnchanged

\* query(...).all() in a session that already holds rows: an object that is
\* loaded and not expired keeps its attribute values; the others are read
SimLoad(cached, stored, i) ==
    IF simExpired \/ i > Len(cached) THEN stored ELSE cached[i]

\* while transaction_count < 10: users = db.query(User).all()
SimQueryUsers ==
    /\ spc = "loop"
    /\ transaction_count < SIM_ITERATIONS
    /\ simUsers' = [i \in 1..Len(users) |-> SimLoad(simUsers, UserById(i), i)]
    /\ spc' = "query_stocks"
    /\ UNCHANGED <<db, amounts, transaction_count, simStocks, simExpired, simLast>>
    /\ SimOthersUnchanged

\* stocks = db.query(Stock).all()
SimQueryStocks ==
    /\ spc = "query_stocks"
    /\ simStocks' = [i \in 1..Len(stocks) |-> SimLoad(simStocks, StockById(i), i)]
    /\ simExpired' = FALSE
    /\ spc' = "trade"
    /\ UNCHANGED <<db, amounts, transaction_count, simUsers, simLast>>
    /\ SimOthersUnchanged

\* mutant: the counter counts transactions made, as its name says
NextCountIfTraded(count, traded) == IF traded THEN count + 1 ELSE count

\* transaction_count += 1, on every pass through the loop body
NextCount(count, traded) == count + 1

SimTransaction(user, stock, quantity, action) ==
    [user_id |-> user.id, stock_id |-> stock.id, quantity |-> quantity,
     price |-> stock.price, type |-> action]

\* one pass through the loop body with the choices made
SimStep(user, stock, quantity, action) ==
    LET total == stock.price * quantity
        covered == user.balance >= total /\ stock.available_quantity >= quantity
        traded == action = "sell" \/ covered
    IN  /\ IF action = "buy" /\ ~covered
           THEN UNCHANGED <<db, amounts, simExpired>>
           ELSE /\ users' = [users EXCEPT ![user.id].balance =
                      Flush(@, user.balance,
                            IF action = "buy" THEN user.balance - total
                            ELSE user.balance + total)]
                /\ stocks' = [stocks EXCEPT ![stock.id].available_quantity =
                      Flush(@, stock.available_quantity,
                            IF action = "buy" THEN stock.available_quantity - quantity
                            ELSE stock.available_quantity + quantity)]
                /\ transactions' = Append(transactions,
                      SimTransaction(user, stock, quantity, action))
                /\ amounts' = Append(amounts, total)
                /\ simExpired' = TRUE
        /\ transaction_count' = NextCount(transaction_count, traded)
        /\ simLast' = [action |-> action, uid |-> user.id, sid |-> stock.id,
                       qty |-> quantity,
                       fresh |-> user = UserById(user.id) /\ stock = StockById(stock.id)]
        /\ spc' = "loop"

\* if not users or not stocks: break; else choose and trade; db.close() after
\* the loop
SimTrade ==
    /\ spc = "trade"
    /\ IF simUsers = <<>> \/ simStocks = <<>>
       THEN /\ spc' = "done"
            /\ UNCHANGED <<db, amounts, transaction_count, simExpired, simLast>>
       ELSE \E ui \in 1..Len(simUsers), si \in 1..Len(simStocks),
               quantity \in SimQtys, action \in SimActions :
               SimStep(simUsers[ui], simStocks[si], quantity, action)
    /\ UNCHANGED <<simUsers, simStocks>>
    /\ SimOthersUnchanged

\* the loop condition fails: db.close()
SimClose ==
    /\ spc = "loop"
    /\ transaction_count >= SIM_ITERATIONS
    /\ spc' = "done"
    /\ UNCHANGED <<db, amounts, transaction_count, simUsers, simStocks, simExpired,
                   simLast>>
    /\ SimOthersUnchanged

SimNext == SimQueryUsers \/ SimQueryStocks \/ SimTrade \/ SimClose

NextSim == SimNext \/ PriceQuery \/ PriceCommit

\* the simulator is one sequential loop that only sleeps a second per pass
SpecSim == InitSim /\ [][NextSim]_vars /\ WF_vars(SimNext)

\* the simulator finishes a pass through its loop body
SimPass == spc = "trade" /\ spc' # "trade"
SimFoundNothing == simUsers = <<>> \/ simStocks = <<>>

BuyEffect(uid, sid, q) ==
    LET u == UserById(uid)
        s == StockById(sid)
        total_cost == q * s.price
    IN  IF u.balance < total_cost \/ s.available_quantity < q
        THEN [balance |-> u.balance, available_quantity |-> s.available_quantity,
              transactions |-> transactions]
        ELSE [balance |-> u.balance - total_cost,
              available_quantity |-> s.available_quantity - q,
              transactions |-> Append(transactions,
                  [user_id |-> uid, stock_id |-> sid, quantity |-> q,
                   price |-> s.price, type |-> "buy"])]

\* the same for sell_stock
SellEffect(uid, sid, q) ==
    LET u == UserById(uid)
        s == StockById(sid)
        total_sale == q * s.price
    IN  [balance |-> u.balance + total_sale,
         available_quantity |-> s.available_quantity,
         transactions |-> Append(transactions,
             [user_id |-> uid, stock_id |-> sid, quantity |-> q,
              price |-> s.price, type |-> "sell"])]

\* C19: a buy or sell step of the simulator has the same effect on the account's
\* balance, the instrument's available quantity and the transaction log as the
\* engine's Buy or Sell called with the same account, instrument and quantity
\* from the same state.
C19_SimulatorAsEngine ==
    [][(SimPass /\ ~SimFoundNothing /\ simLast'.fresh) =>
          LET c == simLast'
              e == IF c.action = "buy" THEN BuyEffect(c.uid, c.sid, c.qty)
                   ELSE SellEffect(c.uid, c.sid, c.qty)
          IN  /\ users'[c.uid].balance = e.balance
              /\ stocks'[c.sid].available_quantity = e.available_quantity
              /\ transactions' = e.transactions]_vars

====
